---- MODULE Spec2Model ----
(***************************************************************************)
(* zp: a ZIP metadata reader.  Two decoders live in the repository:        *)
(*   - lib   : the hand-written loop process of src/lib/src/lib.rs       *)
(*   - zip   : the declarative decoder Zip::process / Zip::output of       *)
(*             src/lib/src/zip.rs over the binrw structures of entries.rs  *)
(* Both read a byte stream record by record.  The model runs either one    *)
(* over a byte stream assembled from a few records, a tail and a cut.      *)
(*                                                                         *)
(* Text is a Rust String, i.e. a sequence of UTF-8 bytes; it is modelled   *)
(* as a sequence of byte values.  The pieces pushed on the Vec<String> s   *)
(* are modelled as tokens [k, a, b]: k names the format string of the      *)
(* push, a and b hold the formatted arguments as bytes.                    *)
(***************************************************************************)
EXTENDS Integers, Sequences, FiniteSets, TLC

(* ------------------------------ bounds -------------------------------- *)

\* Largest number of records the input stream is assembled from.
MaxRecords == 2

\* Largest number of bytes cut off the end of the assembled stream.
MaxCut == 3

\* Largest number of calls of process made on the same bytes.
MaxRuns == 2

\* Largest number of file arguments given to main.
MaxFiles == 3

\* Largest length of a byte stream handed to the read functions on their own.
MaxStream == 7

\* Largest number of read calls made on one such stream.
MaxCalls == 3

\* u16::MAX, the largest argument of mod_time and mod_date
U16_MAX == 65535

(* --------------------------- small helpers ---------------------------- *)

Min(a, b) == IF a < b THEN a ELSE b

\* The value bound by a let: the element of a one-element set.  Binding a
\* computed value as { body : x \in {value} } evaluates it once.
Only(S) == CHOOSE x \in S : TRUE

Take(a, n) == SubSeq(a, 1, Min(n, Len(a)))

Rev(a) == [i \in 1..Len(a) |-> a[Len(a) + 1 - i]]

RECURSIVE Concat(_)
Concat(ss) == IF ss = <<>> THEN <<>> ELSE Head(ss) \o Concat(Tail(ss))

\* the mask shifted one bit too far: x & (1 << (k + 1)) != 0
BitSet_next(x, k) == (x \div (2 ^ (k + 1))) % 2 = 1

\* x & (1 << k) != 0
BitSet(x, k) == (x \div (2 ^ k)) % 2 = 1

(* --------------------------- Field Codec ------------------------------ *)

\* .iter().enumerate().map(|(i, x)| x << (8 * i)).sum()
RECURSIVE ShiftSum(_, _)
ShiftSum(a, i) ==
    IF a = <<>> THEN 0 ELSE Head(a) * (2 ^ (8 * i)) + ShiftSum(Tail(a), i + 1)

u16le(a) == ShiftSum(Take(a, 2), 0) % (2 ^ 16)

\* The four shifted bytes occupy disjoint bits, so the u32 sum cannot wrap.
u32le(a) == ShiftSum(Take(a, 4), 0)

\* u32be without the .rev(): the first byte taken as the least significant
u32be_norev(a) == ShiftSum(Take(a, 4), 0)

u32be(a) == ShiftSum(Rev(Take(a, 4)), 0)

\* the seconds field taken as it is stored, without the factor 2
mod_time_stored(n) ==
    LET h == (n \div (2 ^ 11)) % 256
        m == ((n \div (2 ^ 5)) % 64) % 256
        s == (n % 32) % 256
    IN  << <<h, m, s>>, n >>

\* the seconds masked with six bits instead of five
mod_time_sec6(n) ==
    LET h == (n \div (2 ^ 11)) % 256
        m == ((n \div (2 ^ 5)) % 64) % 256
        s == (2 * ((n % 64) % 256)) % 256
    IN  << <<h, m, s>>, n >>

\* ((hours, minutes, seconds), raw); the three components are u8
mod_time(n) ==
    LET h == (n \div (2 ^ 11)) % 256
        m == ((n \div (2 ^ 5)) % 64) % 256
        s == (2 * ((n % 32) % 256)) % 256
    IN  << <<h, m, s>>, n >>

\* the month masked with five bits instead of four
mod_date_month5(n) ==
    LET y == ((n \div (2 ^ 9)) + 1980) % (2 ^ 16)
        m == ((n \div (2 ^ 5)) % 32) % 256
        d == (n % 32) % 256
    IN  << <<y, m, d>>, n >>

\* ((year, month, day), raw); the year is a u16, month and day are u8
mod_date(n) ==
    LET y == ((n \div (2 ^ 9)) + 1980) % (2 ^ 16)
        m == ((n \div (2 ^ 5)) % 16) % 256
        d == (n % 32) % 256
    IN  << <<y, m, d>>, n >>

(* ------------------------- text formatting ---------------------------- *)

TAB == 9
NL == 10
SLASH == 47

HexDigit(d) == IF d < 10 THEN 48 + d ELSE 87 + d

\* format!("{:0w$x}", n): lowercase hex, zero padded to at least w digits
RECURSIVE HexRaw(_)
HexRaw(n) == IF n < 16 THEN <<HexDigit(n)>>
             ELSE HexRaw(n \div 16) \o <<HexDigit(n % 16)>>

RECURSIVE PadZero(_, _)
PadZero(t, w) == IF Len(t) >= w THEN t ELSE PadZero(<<48>> \o t, w)

Hex(n, w) == PadZero(HexRaw(n), w)

\* format!("{}", n) for an unsigned integer
RECURSIVE Dec(_)
Dec(n) == IF n < 10 THEN <<48 + n>> ELSE Dec(n \div 10) \o <<48 + (n % 10)>>

\* format!("{:0w$}", n)
DecPad(n, w) == PadZero(Dec(n), w)

\* hex::encode(bytes)
RECURSIVE HexEncode(_)
HexEncode(a) == IF a = <<>> THEN <<>> ELSE Hex(Head(a), 2) \o HexEncode(Tail(a))

\* format!("{:?}", (a, b, c)) for a tuple of three integers
DebugTuple3(t) ==
    <<40>> \o Dec(t[1]) \o <<44, 32>> \o Dec(t[2]) \o <<44, 32>> \o Dec(t[3]) \o <<41>>

\* format!("{:?}", found) for found: [u8; N], e.g. "[0, 0, 0, 1]"
RECURSIVE DebugItems(_)
DebugItems(a) ==
    IF a = <<>> THEN <<>>
    ELSE IF Len(a) = 1 THEN Dec(a[1])
    ELSE Dec(a[1]) \o <<44, 32>> \o DebugItems(Tail(a))

DebugArray(a) == <<91>> \o DebugItems(a) \o <<93>>

\* str::replace(c, "") for a one-byte pattern
RemoveByte(t, c) == SelectSeq(t, LAMBDA x : x # c)

\* str::split(", "): the pieces between occurrences of the two bytes 44 32
RECURSIVE SplitCommaSpace(_, _)
SplitCommaSpace(t, cur) ==
    IF t = <<>> THEN <<cur>>
    ELSE IF Len(t) >= 2 /\ t[1] = 44 /\ t[2] = 32
         THEN <<cur>> \o SplitCommaSpace(SubSeq(t, 3, Len(t)), <<>>)
    ELSE SplitCommaSpace(Tail(t), Append(cur, Head(t)))

\* x.parse::<u8>().unwrap() on a string of decimal digits
RECURSIVE ParseDec(_, _)
ParseDec(t, acc) ==
    IF t = <<>> THEN acc ELSE ParseDec(Tail(t), 10 * acc + (Head(t) - 48))

\* "[0, 1, 2, 3]" -> "00010203"
magic_hex(magic) ==
    Only({ Concat([i \in 1..Len(parts) |-> Hex(ParseDec(parts[i], 0), 2)]) :
              parts \in { SplitCommaSpace(x, <<>>) :
                             x \in {RemoveByte(RemoveByte(magic, 91), 93)} } })

\* std::str::from_utf8(bytes).is_ok()
RECURSIVE Utf8Valid(_)
Cont(a, i) == Len(a) >= i /\ a[i] >= 128 /\ a[i] <= 191
Utf8Valid(a) ==
    IF a = <<>> THEN TRUE
    ELSE LET b == a[1] IN
         IF b < 128 THEN Utf8Valid(Tail(a))
         ELSE IF b >= 194 /\ b <= 223
              THEN Cont(a, 2) /\ Utf8Valid(SubSeq(a, 3, Len(a)))
         ELSE IF b >= 224 /\ b <= 239
              THEN /\ Cont(a, 2) /\ Cont(a, 3)
                   /\ (b = 224 => a[2] >= 160)
                   /\ (b = 237 => a[2] <= 159)
                   /\ Utf8Valid(SubSeq(a, 4, Len(a)))
         ELSE IF b >= 240 /\ b <= 244
              THEN /\ Cont(a, 2) /\ Cont(a, 3) /\ Cont(a, 4)
                   /\ (b = 240 => a[2] >= 144)
                   /\ (b = 244 => a[2] <= 143)
                   /\ Utf8Valid(SubSeq(a, 5, Len(a)))
         ELSE FALSE

(* ------------------------- input streams ------------------------------ *)

LE16(v) == <<v % 256, (v \div 256) % 256>>

LE32(v) == <<v % 256, (v \div 256) % 256, (v \div 65536) % 256, (v \div 16777216) % 256>>

SIG_LOCAL == 1347093252    \* 0x504b0304
SIG_CENTRAL == 1347092738  \* 0x504b0102
SIG_EOCD == 1347093766     \* 0x504b0506

\* Entry::LocalFile
LocalFile(flags, usize, name, extra, data, dd) ==
    [sig |-> SIG_LOCAL, version |-> 20, flags |-> flags, compression |-> 8,
     mod_time |-> 18611, mod_date |-> 20761, crc32 |-> 305419896,
     compressed_size |-> Len(data), uncompressed_size |-> usize,
     file_name_length |-> Len(name), extra_field_length |-> Len(extra),
     file_name |-> name, extra_field |-> extra, file_data |-> data,
     data_descriptor |-> dd]

\* DataDescriptor
DataDescriptor(c, cs, us) == [crc32 |-> c, compressed_size |-> cs, uncompressed_size |-> us]

\* Entry::CentralDirectoryFileHeader
CentralDirectoryFileHeader(flags, mt, md, csize, usize, name, extra, comment) ==
    [sig |-> SIG_CENTRAL, version |-> 798, version_needed |-> 20, flags |-> flags,
     compression |-> 8, mod_time |-> mt, mod_date |-> md, crc32 |-> 305419896,
     compressed_size |-> csize, uncompressed_size |-> usize,
     file_name_length |-> Len(name), extra_field_length |-> Len(extra),
     file_comment_length |-> Len(comment), disk_number_start |-> 0,
     internal_file_attributes |-> 1, external_file_attributes |-> 32309248,
     lfh_offset |-> 66, file_name |-> name, extra_field |-> extra,
     file_comment |-> comment]

\* Entry::EndOfCentralDirectoryRecord
EndOfCentralDirectoryRecord(entries, comment) ==
    [sig |-> SIG_EOCD, disk_number |-> 0, disk_number_w_cd |-> 0,
     disk_entries |-> entries, total_entries |-> entries, cd_size |-> 90,
     cd_offset |-> 70000, comment_length |-> Len(comment),
     zip_file_comment |-> comment]

\* The records an input stream is assembled from.
Templates ==
    { LocalFile(0, 4, <<97>>, <<>>, <<1, 2>>, <<>>),
      LocalFile(8, 0, <<>>, <<7>>, <<80, 75>>, <<DataDescriptor(1, 2, 70000)>>),
      LocalFile(65527, 0, <<255>>, <<>>, <<>>, <<>>),
      CentralDirectoryFileHeader(0, 18611, 20761, 6, 0, <<100, 47>>, <<>>, <<>>),
      CentralDirectoryFileHeader(8, 65535, 65535, 2, 2147483647, <<>>, <<9, 9>>, <<65>>),
      CentralDirectoryFileHeader(0, 0, 0, 1, 4, <<47, 195, 169>>, <<>>, <<9>>),
      CentralDirectoryFileHeader(0, 33, 33, 0, 7, <<255>>, <<>>, <<>>),
      EndOfCentralDirectoryRecord(2, <<>>),
      EndOfCentralDirectoryRecord(1, <<104, 105, 33, 47>>),
      EndOfCentralDirectoryRecord(0, <<65, 255>>) }

\* Bytes that follow the last record.
Tails == { <<>>, <<0>>, <<80, 75, 3>>, <<0, 0, 0, 1>>, <<80, 75, 7, 8, 1>> }

\* The bytes of one record as an archiver writes them.
Encode(e) ==
    IF e.sig = SIG_LOCAL THEN
        <<80, 75, 3, 4>> \o LE16(e.version) \o LE16(e.flags) \o LE16(e.compression)
        \o LE16(e.mod_time) \o LE16(e.mod_date) \o LE32(e.crc32)
        \o LE32(e.compressed_size) \o LE32(e.uncompressed_size)
        \o LE16(e.file_name_length) \o LE16(e.extra_field_length)
        \o e.file_name \o e.extra_field \o e.file_data
        \o (IF e.data_descriptor = <<>> THEN <<>>
            ELSE LE32(e.data_descriptor[1].crc32)
                 \o LE32(e.data_descriptor[1].compressed_size)
                 \o LE32(e.data_descriptor[1].uncompressed_size))
    ELSE IF e.sig = SIG_CENTRAL THEN
        <<80, 75, 1, 2>> \o LE16(e.version) \o LE16(e.version_needed) \o LE16(e.flags)
        \o LE16(e.compression) \o LE16(e.mod_time) \o LE16(e.mod_date)
        \o LE32(e.crc32) \o LE32(e.compressed_size) \o LE32(e.uncompressed_size)
        \o LE16(e.file_name_length) \o LE16(e.extra_field_length)
        \o LE16(e.file_comment_length) \o LE16(e.disk_number_start)
        \o LE16(e.internal_file_attributes) \o LE32(e.external_file_attributes)
        \o LE32(e.lfh_offset) \o e.file_name \o e.extra_field \o e.file_comment
    ELSE
        <<80, 75, 5, 6>> \o LE16(e.disk_number) \o LE16(e.disk_number_w_cd)
        \o LE16(e.disk_entries) \o LE16(e.total_entries) \o LE32(e.cd_size)
        \o LE32(e.cd_offset) \o LE16(e.comment_length) \o e.zip_file_comment

EncodeAll(es) == Concat([i \in 1..Len(es) |-> Encode(es[i])])

\* Offset of the first byte after the i-th assembled record.
EndOf(es, i) == Len(EncodeAll(SubSeq(es, 1, i)))

SeqsUpTo(S, n) == UNION {[1..k -> S] : k \in 0..n}

(* ------------------------------ state --------------------------------- *)

VARIABLES
    api,      \* "lib": process of lib.rs; "zip": Zip::process and Zip::output
    verbose,  \* the verbose flag
    src,      \* the records the stream was assembled from
    bytes,    \* the byte stream behind the BufReader
    pos,      \* read position of the BufReader
    pc,       \* position of the decoder in its code
    sigs,     \* offsets at which a 4-byte signature was read, with the result
    recs,     \* lib: the fields bound by each loop iteration; zip: Entries.list
    s,        \* the Vec<String> of pushed pieces
    result,   \* what the call returned
    calls,    \* the Field Codec functions applied so far, with their results
    cli,      \* main: the file arguments, the loop index, stdout, the exit status
    prior     \* the outcomes of the earlier calls on the same bytes

vars == <<api, verbose, src, bytes, pos, pc, sigs, recs, s, result, calls, cli, prior>>

\* What one call of process leaves alone: it owns its reader and its Vec.
aux == <<calls, cli, prior>>

\* main is not running: process is called on a reader directly.
NoCli == [files |-> <<>>, i |-> 0, out |-> <<>>, exit |-> -1]

NoResult == [kind |-> "none", err |-> "", msg |-> <<>>, text |-> <<>>]

\* Ok(text)
Ok(text) == [kind |-> "ok", err |-> "", msg |-> <<>>, text |-> text]

\* Err(message): err names the message's fixed part, msg holds its formatted argument
Err(e, arg) == [kind |-> "err", err |-> e, msg |-> arg, text |-> <<>>]

\* a panic of Result::unwrap: the call does not return
Panic == [kind |-> "panic", err |-> "Result::unwrap on Utf8Error",
          msg |-> <<>>, text |-> <<>>]

E_EOF == "Unexpected end of file"
E_SIG == "Invalid signature"
E_FILL == "failed to fill whole buffer"
E_ENUM == "no variants matched"
E_NOENT == "No such file or directory (os error 2)"
E_NOEXIST == "Path does not exist"
E_NOTFILE == "Path is not a file"
E_DENIED == "Permission denied (os error 13)"
E_NOFILES == "No files provided. Run with -h to view usage."

Init ==
    /\ api \in {"lib", "zip"}
    /\ verbose \in BOOLEAN
    /\ src \in SeqsUpTo(Templates, MaxRecords)
    /\ \E tail \in Tails, cut \in 0..MaxCut :
          /\ (tail = <<>> \/ cut = 0)
          /\ cut <= Len(EncodeAll(src))
          /\ bytes = SubSeq(EncodeAll(src) \o tail, 1, Len(EncodeAll(src) \o tail) - cut)
    /\ pos = 0
    /\ pc = "sig"
    /\ sigs = <<>>
    /\ recs = <<>>
    /\ s = <<>>
    /\ result = NoResult
    /\ calls = <<>>
    /\ cli = NoCli
    /\ prior = <<>>

(* ----------------------------- reader --------------------------------- *)

\* read_exact on n bytes: the bytes and the new position, or a short read.
\* A short read drains the reader.
read_n(n, p) ==
    IF Len(bytes) - p >= n
    THEN [ok |-> TRUE, buf |-> SubSeq(bytes, p + 1, p + n), pos |-> p + n]
    ELSE [ok |-> FALSE, buf |-> <<>>, pos |-> Len(bytes)]

\* every field taken to be four bytes wide
FieldLen_wide(f) == 4

\* Field::len
FieldLen(f) == IF f = "U16LE" THEN 2 ELSE 4

read(f, p) == read_n(FieldLen(f), p)

\* Consecutive read_u16le / read_u32le / read_mod_time / read_mod_date calls
\* chained by ?: the decoded values (after those in acc) and the new
\* position, or the first short read.
RECURSIVE ReadFieldsFrom(_, _, _)
ReadFieldsFrom(fs, p, acc) ==
    IF fs = <<>> THEN [ok |-> TRUE, vals |-> acc, pos |-> p]
    ELSE Only({
           IF ~r.ok THEN [ok |-> FALSE, vals |-> <<>>, pos |-> r.pos]
           ELSE ReadFieldsFrom(Tail(fs), r.pos,
                               Append(acc, IF Head(fs) = "U16LE" THEN u16le(r.buf)
                                           ELSE u32le(r.buf)))
         : r \in {read(Head(fs), p)} })

ReadFields(fs, p) == ReadFieldsFrom(fs, p, <<>>)

(* ------------------------- pushed pieces ------------------------------ *)

Tok(k, a, b) == [k |-> k, a |-> a, b |-> b]

\* "---\n"
SEP == Tok("---", <<>>, <<>>)

\* "EOF\n---\n"
EOFTOK == Tok("EOF ---", <<>>, <<>>)

\* "---\nEOF\n---\n"
EOFTOK_Z == Tok("--- EOF ---", <<>>, <<>>)

\* "sig = 0x{:08x} (<kind>)\n"
VSig(sig) == Tok("sig", Hex(sig, 8), <<>>)

\* "<name> = 0x{:04x} ({})\n"
VU16(name, v) == Tok(name, Hex(v, 4), Dec(v))

\* "<name> = 0x{:08x} ({})\n"
VU32(name, v) == Tok(name, Hex(v, 8), Dec(v))

\* "mod_time = 0x{:04x} ({:?})\n", "mod_date = 0x{:04x} ({:?})\n"
VTuple(name, t) == Tok(name, Hex(t[2], 4), DebugTuple3(t[1]))

\* "<name> = {:?} ({:?})\n" with hex::encode(x) and from_utf8(x).unwrap()
VText(name, x) == Tok(name, HexEncode(x), x)

\* "<name> = {:?}\n" with hex::encode(x)
VBytes(name, x) == Tok(name, HexEncode(x), <<>>)

TRUE_TXT == <<116, 114, 117, 101>>
FALSE_TXT == <<102, 97, 108, 115, 101>>
NONE_TXT == <<78, 111, 110, 101>>
SOME_TXT == <<83, 111, 109, 101, 40>>

\* starts_with in place of ends_with
EndsWithSlash_first(x) == Len(x) >= 1 /\ x[1] = SLASH

\* file_name.ends_with(b"/")
EndsWithSlash(x) == Len(x) >= 1 /\ x[Len(x)] = SLASH

\* "{:04}-{:02}-{:02}T{:02}:{:02}:{:02}"
Timestamp(d, t) ==
    DecPad(d[1], 4) \o <<45>> \o DecPad(d[2], 2) \o <<45>> \o DecPad(d[3], 2)
    \o <<84>> \o DecPad(t[1], 2) \o <<58>> \o DecPad(t[2], 2) \o <<58>> \o DecPad(t[3], 2)

\* "{}\t{}\t{}\t<timestamp>\t{}\n"
SummaryLine(name, usize, d, t, comment) ==
    name \o <<TAB>> \o (IF EndsWithSlash(name) THEN TRUE_TXT ELSE FALSE_TXT)
    \o <<TAB>> \o Dec(usize) \o <<TAB>> \o Timestamp(d, t) \o <<TAB>> \o comment \o <<NL>>

(* --------------------- lib.rs: the loop of process -------------------- *)

Failed(p) == [st |-> "err", rec |-> <<>>, pos |-> p]
Panicked(p) == [st |-> "panic", rec |-> <<>>, pos |-> p]

\* the reader rewound to the start of the stream after a record
Decoded_rewound(r, p) == [st |-> "ok", rec |-> <<r>>, pos |-> 0]

Decoded(r, p) == [st |-> "ok", rec |-> <<r>>, pos |-> p]

LOCAL_FIELDS == <<"U16LE", "U16LE", "U16LE", "U16LE", "U16LE",
                  "U32LE", "U32LE", "U32LE", "U16LE", "U16LE">>

DD_FIELDS == <<"U32LE", "U32LE", "U32LE">>

CENTRAL_FIELDS == <<"U16LE", "U16LE", "U16LE", "U16LE", "U16LE", "U16LE",
                    "U32LE", "U32LE", "U32LE", "U16LE", "U16LE", "U16LE",
                    "U16LE", "U16LE", "U32LE", "U32LE">>

EOCD_FIELDS == <<"U16LE", "U16LE", "U16LE", "U16LE", "U32LE", "U32LE", "U16LE">>

\* file_data read with the uncompressed size
FileDataLen_uncompressed(v) == v[8]

\* read_n(compressed_size as usize, r) / #[br(count = compressed_size)]
FileDataLen(v) == v[7]

\* the comment read before the extra field
CentralLens_swapped(v) == <<v[10], v[12], v[11]>>

\* The lengths of file_name, extra_field, file_comment in reading order
CentralLens(v) == <<v[10], v[11], v[12]>>

MkLocal(v, name, extra, data, dd) ==
    [sig |-> SIG_LOCAL, version |-> v[1], flags |-> v[2], compression |-> v[3],
     mod_time |-> v[4], mod_date |-> v[5], crc32 |-> v[6],
     compressed_size |-> v[7], uncompressed_size |-> v[8],
     file_name_length |-> v[9], extra_field_length |-> v[10],
     file_name |-> name, extra_field |-> extra, file_data |-> data,
     data_descriptor |-> dd]

MkCentral(v, name, extra, comment) ==
    [sig |-> SIG_CENTRAL, version |-> v[1], version_needed |-> v[2], flags |-> v[3],
     compression |-> v[4], mod_time |-> v[5], mod_date |-> v[6], crc32 |-> v[7],
     compressed_size |-> v[8], uncompressed_size |-> v[9],
     file_name_length |-> v[10], extra_field_length |-> v[11],
     file_comment_length |-> v[12], disk_number_start |-> v[13],
     internal_file_attributes |-> v[14], external_file_attributes |-> v[15],
     lfh_offset |-> v[16], file_name |-> name, extra_field |-> extra,
     file_comment |-> comment]

\* lib.rs binds no zip_file_comment: the loop stops at comment_length
MkEocdLib(v) ==
    [sig |-> SIG_EOCD, disk_number |-> v[1], disk_number_w_cd |-> v[2],
     disk_entries |-> v[3], total_entries |-> v[4], cd_size |-> v[5],
     cd_offset |-> v[6], comment_length |-> v[7]]

MkEocd(v, comment) ==
    [sig |-> SIG_EOCD, disk_number |-> v[1], disk_number_w_cd |-> v[2],
     disk_entries |-> v[3], total_entries |-> v[4], cd_size |-> v[5],
     cd_offset |-> v[6], comment_length |-> v[7], zip_file_comment |-> comment]

MkDD(v) == <<[crc32 |-> v[1], compressed_size |-> v[2], uncompressed_size |-> v[3]]>>

\* The branch sig == 0x504b0304 of process, from position p.
LibLocalBody(p, vb) ==
    Only({
           IF ~f.ok THEN Failed(f.pos) ELSE
           LET nm == read_n(f.vals[9], f.pos) IN
           IF ~nm.ok THEN Failed(nm.pos) ELSE
           IF vb /\ ~Utf8Valid(nm.buf) THEN Panicked(nm.pos) ELSE
           LET ex == read_n(f.vals[10], nm.pos) IN
           IF ~ex.ok THEN Failed(ex.pos) ELSE
           LET fd == read_n(FileDataLen(f.vals), ex.pos) IN
           IF ~fd.ok THEN Failed(fd.pos) ELSE
           IF BitSet(f.vals[2], 3)
           THEN LET d == ReadFields(DD_FIELDS, fd.pos) IN
                IF ~d.ok THEN Failed(d.pos)
                ELSE Decoded(MkLocal(f.vals, nm.buf, ex.buf, fd.buf, MkDD(d.vals)), d.pos)
           ELSE Decoded(MkLocal(f.vals, nm.buf, ex.buf, fd.buf, <<>>), fd.pos)
       : f \in {ReadFields(LOCAL_FIELDS, p)} })

\* The branch sig == 0x504b0102 of process, from position p.
LibCentralBody(p, vb) ==
    Only({
           IF ~f.ok THEN Failed(f.pos) ELSE
           LET nm == read_n(CentralLens(f.vals)[1], f.pos) IN
           IF ~nm.ok THEN Failed(nm.pos) ELSE
           IF vb /\ ~Utf8Valid(nm.buf) THEN Panicked(nm.pos) ELSE
           LET ex == read_n(CentralLens(f.vals)[2], nm.pos) IN
           IF ~ex.ok THEN Failed(ex.pos) ELSE
           LET fc == read_n(CentralLens(f.vals)[3], ex.pos) IN
           IF ~fc.ok THEN Failed(fc.pos) ELSE
           IF vb /\ ~Utf8Valid(fc.buf) THEN Panicked(fc.pos) ELSE
           IF ~vb /\ (~Utf8Valid(nm.buf) \/ ~Utf8Valid(fc.buf)) THEN Panicked(fc.pos) ELSE
           Decoded(MkCentral(f.vals, nm.buf, ex.buf, fc.buf), fc.pos)
       : f \in {ReadFields(CENTRAL_FIELDS, p)} })

\* The branch sig == 0x504b0506 of process, from position p.
LibEocdBody(p) ==
    Only({
           IF ~f.ok THEN Failed(f.pos) ELSE Decoded(MkEocdLib(f.vals), f.pos)
       : f \in {ReadFields(EOCD_FIELDS, p)} })

\* format!("{:?}", data_descriptor) for Option<(u32, u32, u32)>
LibDebugDD(dd) ==
    IF dd = <<>> THEN NONE_TXT
    ELSE SOME_TXT \o DebugTuple3(<<dd[1].crc32, dd[1].compressed_size,
                                   dd[1].uncompressed_size>>) \o <<41>>

\* The pieces process pushes for a local file header when verbose.
LibVerboseLocal(e) ==
    << VSig(e.sig), VU16("version", e.version), VU16("flags", e.flags),
       VU16("compression", e.compression),
       VTuple("mod_time", mod_time(e.mod_time)),
       VTuple("mod_date", mod_date(e.mod_date)),
       VU32("crc32", e.crc32), VU32("compressed_size", e.compressed_size),
       VU32("uncompressed_size", e.uncompressed_size),
       VU16("file_name_length", e.file_name_length),
       VU16("extra_field_length", e.extra_field_length),
       VText("file_name", e.file_name), VBytes("extra_field", e.extra_field),
       VBytes("file_data", e.file_data),
       Tok("data_descriptor", <<>>, LibDebugDD(e.data_descriptor)) >>

\* The pieces process pushes for a central directory file header when verbose.
LibVerboseCentral(e) ==
    << VSig(e.sig), VU16("version", e.version),
       VU16("version_needed", e.version_needed), VU16("flags", e.flags),
       VU16("compression", e.compression),
       VTuple("mod_time", mod_time(e.mod_time)),
       VTuple("mod_date", mod_date(e.mod_date)),
       VU32("crc32", e.crc32), VU32("compressed_size", e.compressed_size),
       VU32("uncompressed_size", e.uncompressed_size),
       VU16("file_name_length", e.file_name_length),
       VU16("extra_field_length", e.extra_field_length),
       VU16("file_comment_length", e.file_comment_length),
       VU16("disk_number_start", e.disk_number_start),
       VU16("internal_file_attributes", e.internal_file_attributes),
       VU32("external_file_attributes", e.external_file_attributes),
       VU32("lfh_offset", e.lfh_offset),
       VText("file_name", e.file_name), VBytes("extra_field", e.extra_field),
       VText("file_comment", e.file_comment) >>

\* The pieces process pushes for an end of central directory record when verbose.
LibVerboseEocd(e) ==
    << VSig(e.sig), VU16("disk_number", e.disk_number),
       VU16("disk_number_w_cd", e.disk_number_w_cd),
       VU16("disk_entries", e.disk_entries),
       VU16("total_entries", e.total_entries),
       VU32("cd_size", e.cd_size), VU32("cd_offset", e.cd_offset),
       VU16("comment_length", e.comment_length) >>

\* The piece process pushes for a central directory file header when not verbose.
LibSummaryCentral(e) ==
    << Tok("summary", <<>>,
           SummaryLine(e.file_name, e.uncompressed_size, mod_date(e.mod_date)[1],
                       mod_time(e.mod_time)[1], e.file_comment)) >>

Magics == { <<80, 75, 3, 4>>, <<80, 75, 1, 2>>, <<80, 75, 5, 6>> }

\* What a signature read at offset p saw: the 4 bytes, or the fewer that remain.
SigRead(p) == [at |-> p, raw |-> SubSeq(bytes, p + 1, Min(p + 4, Len(bytes)))]

\* if verbose { s.push("---\n") } at the top of the loop
LibTop == IF verbose THEN Append(s, SEP) ELSE s

\* read_u32be succeeded and the signature is one of the three magics
LibReadSig ==
    /\ api = "lib" /\ pc = "sig"
    /\ \E r \in {read("U32BE", pos)} :
       /\ r.ok
       /\ u32be(r.buf) \in {SIG_LOCAL, SIG_CENTRAL, SIG_EOCD}
       /\ pc' = IF u32be(r.buf) = SIG_LOCAL THEN "local"
                ELSE IF u32be(r.buf) = SIG_CENTRAL THEN "central" ELSE "eocd"
       /\ pos' = r.pos
       /\ sigs' = Append(sigs, SigRead(pos))
       /\ s' = LibTop
    /\ UNCHANGED <<api, verbose, src, bytes, recs, result>>
    /\ UNCHANGED aux

\* read_u32be succeeded and the signature is none of the three magics
LibInvalidSig ==
    /\ api = "lib" /\ pc = "sig"
    /\ \E r \in {read("U32BE", pos)} :
       /\ r.ok
       /\ u32be(r.buf) \notin {SIG_LOCAL, SIG_CENTRAL, SIG_EOCD}
       /\ result' = Err(E_SIG, Hex(u32be(r.buf), 8))
       /\ pos' = r.pos
       /\ sigs' = Append(sigs, SigRead(pos))
       /\ s' = LibTop
    /\ pc' = "done"
    /\ UNCHANGED <<api, verbose, src, bytes, recs>>
    /\ UNCHANGED aux

\* the break taken without the push of "EOF\n---\n"
LibEndOfStream_silent ==
    /\ api = "lib" /\ pc = "sig"
    /\ \E r \in {read("U32BE", pos)} :
       /\ ~r.ok
       /\ pos' = r.pos
       /\ sigs' = Append(sigs, SigRead(pos))
       /\ s' = LibTop
    /\ pc' = "join"
    /\ UNCHANGED <<api, verbose, src, bytes, recs, result>>
    /\ UNCHANGED aux

\* read_u32be failed: push "EOF\n---\n" when verbose and break
LibEndOfStream ==
    /\ api = "lib" /\ pc = "sig"
    /\ \E r \in {read("U32BE", pos)} :
       /\ ~r.ok
       /\ pos' = r.pos
       /\ sigs' = Append(sigs, SigRead(pos))
       /\ s' = IF verbose THEN Append(LibTop, EOFTOK) ELSE LibTop
    /\ pc' = "join"
    /\ UNCHANGED <<api, verbose, src, bytes, recs, result>>
    /\ UNCHANGED aux

\* One record body of the loop: o is what the branch made of the bytes,
\* pieces what it pushed.
LibBody(o, pieces) ==
    /\ pos' = o.pos
    /\ IF o.st = "ok"
       THEN /\ recs' = recs \o o.rec
            /\ s' = s \o pieces
            /\ pc' = "sig"
            /\ UNCHANGED result
       ELSE /\ result' = IF o.st = "err" THEN Err(E_FILL, <<>>) ELSE Panic
            /\ pc' = "done"
            /\ UNCHANGED <<recs, s>>
    /\ UNCHANGED <<api, verbose, src, bytes, sigs>>
    /\ UNCHANGED aux

LibLocalFile ==
    /\ api = "lib" /\ pc = "local"
    /\ \E o \in {LibLocalBody(pos, verbose)} :
       LibBody(o, IF o.st = "ok" /\ verbose THEN LibVerboseLocal(o.rec[1]) ELSE <<>>)

LibCentral ==
    /\ api = "lib" /\ pc = "central"
    /\ \E o \in {LibCentralBody(pos, verbose)} :
       LibBody(o, IF o.st # "ok" THEN <<>>
                  ELSE IF verbose THEN LibVerboseCentral(o.rec[1])
                  ELSE LibSummaryCentral(o.rec[1]))

LibEocd ==
    /\ api = "lib" /\ pc = "eocd"
    /\ \E o \in {LibEocdBody(pos)} :
       LibBody(o, IF o.st = "ok" /\ verbose THEN LibVerboseEocd(o.rec[1]) ELSE <<>>)

\* the leftover bytes of the last signature read taken for an error
LibFinish_strict ==
    /\ api = "lib" /\ pc = "join"
    /\ result' = IF s = <<SEP, EOFTOK>> \/ sigs[Len(sigs)].raw # <<>>
                 THEN Err(E_EOF, <<>>) ELSE Ok(s)
    /\ pc' = "done"
    /\ UNCHANGED <<api, verbose, src, bytes, pos, sigs, recs, s>>
    /\ UNCHANGED aux

\* After the loop: s.join(""), the comparison with "---\nEOF\n---\n", Ok(s).
\* Every other piece holds a character that text lacks (a space, a tab), so
\* the joined text equals it exactly when the pieces are those two.
LibFinish ==
    /\ api = "lib" /\ pc = "join"
    /\ result' = IF s = <<SEP, EOFTOK>> THEN Err(E_EOF, <<>>) ELSE Ok(s)
    /\ pc' = "done"
    /\ UNCHANGED <<api, verbose, src, bytes, pos, sigs, recs, s>>
    /\ UNCHANGED aux

(* ------------- entries.rs / zip.rs: the declarative decoder ----------- *)

VEof(p) == [st |-> "eof", rec |-> <<>>, pos |-> p, found |-> <<>>]
VBadMagic(p, found) == [st |-> "badmagic", rec |-> <<>>, pos |-> p, found |-> found]
VOk(r, p) == [st |-> "ok", rec |-> <<r>>, pos |-> p, found |-> <<>>]

\* #[br(magic = b"...")]: read 4 bytes and compare them with the magic
ReadMagic(magic, p) ==
    LET m == read_n(4, p) IN
    IF ~m.ok THEN VEof(p)
    ELSE IF m.buf # magic THEN VBadMagic(p, m.buf)
    ELSE VOk(magic, m.pos)

\* struct LocalFile read from position p
ReadLocalFile(p) ==
    LET m == ReadMagic(<<80, 75, 3, 4>>, p) IN
    IF m.st # "ok" THEN m ELSE
    Only({
           IF ~f.ok THEN VEof(p) ELSE
           LET nm == read_n(f.vals[9], f.pos) IN
           IF ~nm.ok THEN VEof(p) ELSE
           LET ex == read_n(f.vals[10], nm.pos) IN
           IF ~ex.ok THEN VEof(p) ELSE
           LET fd == read_n(FileDataLen(f.vals), ex.pos) IN
           IF ~fd.ok THEN VEof(p) ELSE
           IF BitSet(f.vals[2], 3)
           THEN LET d == ReadFields(DD_FIELDS, fd.pos) IN
                IF ~d.ok THEN VEof(p)
                ELSE VOk(MkLocal(f.vals, nm.buf, ex.buf, fd.buf, MkDD(d.vals)), d.pos)
           ELSE VOk(MkLocal(f.vals, nm.buf, ex.buf, fd.buf, <<>>), fd.pos)
       : f \in {ReadFields(LOCAL_FIELDS, m.pos)} })

\* struct CentralDirectoryFileHeader read from position p
ReadCentral(p) ==
    LET m == ReadMagic(<<80, 75, 1, 2>>, p) IN
    IF m.st # "ok" THEN m ELSE
    Only({
           IF ~f.ok THEN VEof(p) ELSE
           LET nm == read_n(CentralLens(f.vals)[1], f.pos) IN
           IF ~nm.ok THEN VEof(p) ELSE
           LET ex == read_n(CentralLens(f.vals)[2], nm.pos) IN
           IF ~ex.ok THEN VEof(p) ELSE
           LET fc == read_n(CentralLens(f.vals)[3], ex.pos) IN
           IF ~fc.ok THEN VEof(p) ELSE
           VOk(MkCentral(f.vals, nm.buf, ex.buf, fc.buf), fc.pos)
       : f \in {ReadFields(CENTRAL_FIELDS, m.pos)} })

\* struct EndOfCentralDirectoryRecord read from position p
ReadEocd(p) ==
    LET m == ReadMagic(<<80, 75, 5, 6>>, p) IN
    IF m.st # "ok" THEN m ELSE
    Only({
           IF ~f.ok THEN VEof(p) ELSE
           LET c == read_n(f.vals[7], f.pos) IN
           IF ~c.ok THEN VEof(p) ELSE
           VOk(MkEocd(f.vals, c.buf), c.pos)
       : f \in {ReadFields(EOCD_FIELDS, m.pos)} })

\* enum Entry: the variants are tried in declaration order from the same
\* position; the first that reads is the entry, else every variant's error
\* is returned.
ReadEntry(p) ==
    Only({ IF a.st = "ok" THEN [ok |-> TRUE, rec |-> a.rec, pos |-> a.pos, errs |-> <<>>]
           ELSE IF b.st = "ok" THEN [ok |-> TRUE, rec |-> b.rec, pos |-> b.pos, errs |-> <<>>]
           ELSE IF c.st = "ok" THEN [ok |-> TRUE, rec |-> c.rec, pos |-> c.pos, errs |-> <<>>]
           ELSE [ok |-> FALSE, rec |-> <<>>, pos |-> p, errs |-> <<a, b, c>>]
           : a \in {ReadLocalFile(p)}, b \in {ReadCentral(p)}, c \in {ReadEocd(p)} })

\* binrw Error::is_eof on the variants' errors: every variant hit the end
IsEof(errs) == \A i \in 1..Len(errs) : errs[i].st = "eof"

\* count_bad_magic == variant_errors.len()
AllBadMagic(errs) == \A i \in 1..Len(errs) : errs[i].st = "badmagic"

\* until_eof: one more Entry was read
ZipReadEntry ==
    /\ api = "zip" /\ pc = "sig"
    /\ \E e \in {ReadEntry(pos)} :
       /\ e.ok
       /\ recs' = recs \o e.rec
       /\ pos' = e.pos
    /\ sigs' = Append(sigs, SigRead(pos))
    /\ UNCHANGED <<api, verbose, src, bytes, pc, s, result>>
    /\ UNCHANGED aux

\* until_eof: the read failed at the end of the stream; the list is complete
ZipEndOfStream ==
    /\ api = "zip" /\ pc = "sig"
    /\ \E e \in {ReadEntry(pos)} : ~e.ok /\ IsEof(e.errs)
    /\ sigs' = Append(sigs, SigRead(pos))
    /\ pc' = "process"
    /\ UNCHANGED <<api, verbose, src, bytes, pos, recs, s, result>>
    /\ UNCHANGED aux

\* Zip::process, Err(e) with every variant error a BadMagic
ZipInvalidSig ==
    /\ api = "zip" /\ pc = "sig"
    /\ \E e \in {ReadEntry(pos)} :
       /\ ~e.ok /\ ~IsEof(e.errs) /\ AllBadMagic(e.errs)
       /\ result' = Err(E_SIG, magic_hex(DebugArray(e.errs[Len(e.errs)].found)))
    /\ sigs' = Append(sigs, SigRead(pos))
    /\ pc' = "done"
    /\ UNCHANGED <<api, verbose, src, bytes, pos, recs, s>>
    /\ UNCHANGED aux

\* Zip::process, Err(e) otherwise: the error's own text
ZipReadError ==
    /\ api = "zip" /\ pc = "sig"
    /\ \E e \in {ReadEntry(pos)} :
       /\ ~e.ok /\ ~IsEof(e.errs) /\ ~AllBadMagic(e.errs)
       /\ result' = Err(E_ENUM, <<>>)
    /\ sigs' = Append(sigs, SigRead(pos))
    /\ pc' = "done"
    /\ UNCHANGED <<api, verbose, src, bytes, pos, recs, s>>
    /\ UNCHANGED aux

\* Zip::process, Ok(entries): an empty list is an error
ZipProcess ==
    /\ api = "zip" /\ pc = "process"
    /\ IF recs = <<>>
       THEN result' = Err(E_EOF, <<>>) /\ pc' = "done"
       ELSE pc' = "output" /\ UNCHANGED result
    /\ UNCHANGED <<api, verbose, src, bytes, pos, sigs, recs, s>>
    /\ UNCHANGED aux

\* The data_descriptor argument of LocalFile::verbose
ZipVerboseDD(dd) ==
    IF dd = <<>> THEN <<Tok("data_descriptor", <<>>, NONE_TXT)>>
    ELSE << Tok("data_descriptor", <<>>, <<123>>),
            VU32("dd.crc32", dd[1].crc32),
            VU32("dd.compressed_size", dd[1].compressed_size),
            VU32("dd.uncompressed_size", dd[1].uncompressed_size),
            Tok("dd.end", <<>>, <<125>>) >>

\* LocalFile::verbose
LocalFile_verbose(e) ==
    SubSeq(LibVerboseLocal(e), 1, 14) \o ZipVerboseDD(e.data_descriptor)

\* CentralDirectoryFileHeader::verbose
Central_verbose(e) == LibVerboseCentral(e)

\* EndOfCentralDirectoryRecord::verbose
Eocd_verbose(e) == Append(LibVerboseEocd(e), VText("zip_file_comment", e.zip_file_comment))

\* CentralDirectoryFileHeader::summary
Central_summary(e) ==
    SummaryLine(e.file_name, e.uncompressed_size, mod_date(e.mod_date)[1],
                mod_time(e.mod_time)[1], e.file_comment)

\* The from_utf8(..).unwrap() calls of an entry's verbose() succeed
VerboseTextOk(e) ==
    IF e.sig = SIG_LOCAL THEN Utf8Valid(e.file_name)
    ELSE IF e.sig = SIG_CENTRAL THEN Utf8Valid(e.file_name) /\ Utf8Valid(e.file_comment)
    ELSE Utf8Valid(e.zip_file_comment)

\* The from_utf8(..).unwrap() calls of summary() succeed
SummaryTextOk(e) == Utf8Valid(e.file_name) /\ Utf8Valid(e.file_comment)

\* Zip::verbose
RECURSIVE Zip_verbose(_)
Zip_verbose(es) ==
    IF es = <<>> THEN <<EOFTOK_Z>>
    ELSE LET e == Head(es) IN
         <<SEP>> \o (IF e.sig = SIG_LOCAL THEN LocalFile_verbose(e)
                     ELSE IF e.sig = SIG_CENTRAL THEN Central_verbose(e)
                     ELSE Eocd_verbose(e))
         \o Zip_verbose(Tail(es))

\* the lines collected in reverse order
RECURSIVE Zip_summary_rev(_)
Zip_summary_rev(es) ==
    IF es = <<>> THEN <<>>
    ELSE Zip_summary_rev(Tail(es))
         \o (IF Head(es).sig = SIG_CENTRAL
             THEN <<Tok("summary", <<>>, Central_summary(Head(es)))>> ELSE <<>>)

\* Zip::summary
RECURSIVE Zip_summary(_)
Zip_summary(es) ==
    IF es = <<>> THEN <<>>
    ELSE (IF Head(es).sig = SIG_CENTRAL
          THEN <<Tok("summary", <<>>, Central_summary(Head(es)))>> ELSE <<>>)
         \o Zip_summary(Tail(es))

\* Zip::output
ZipOutput ==
    /\ api = "zip" /\ pc = "output"
    /\ IF verbose
       THEN IF \A i \in 1..Len(recs) : VerboseTextOk(recs[i])
            THEN s' = Zip_verbose(recs) /\ result' = Ok(Zip_verbose(recs))
            ELSE result' = Panic /\ UNCHANGED s
       ELSE IF \A i \in 1..Len(recs) : recs[i].sig = SIG_CENTRAL => SummaryTextOk(recs[i])
            THEN s' = Zip_summary(recs) /\ result' = Ok(Zip_summary(recs))
            ELSE result' = Panic /\ UNCHANGED s
    /\ pc' = "done"
    /\ UNCHANGED <<api, verbose, src, bytes, pos, sigs, recs>>
    /\ UNCHANGED aux

Next ==
    \/ LibReadSig \/ LibInvalidSig \/ LibEndOfStream
    \/ LibLocalFile \/ LibCentral \/ LibEocd \/ LibFinish
    \/ ZipReadEntry \/ ZipEndOfStream \/ ZipInvalidSig \/ ZipReadError
    \/ ZipProcess \/ ZipOutput

Spec == Init /\ [][Next]_vars

\* The loop of either decoder as the program runs it: a step that can be
\* taken is taken.
FairSpec == Spec /\ WF_vars(Next)

(* ------------------- process called again on the bytes ---------------- *)

\* the Vec of pieces kept from the call before
Again_keeps ==
    /\ pc = "done" /\ Len(prior) < MaxRuns - 1
    /\ prior' = Append(prior, [result |-> result, recs |-> recs])
    /\ pos' = 0 /\ pc' = "sig" /\ sigs' = <<>> /\ recs' = <<>>
    /\ result' = NoResult
    /\ UNCHANGED <<api, verbose, src, bytes, s, calls, cli>>

\* The call is over and its outcome noted; process is called once more with
\* a new reader over the same bytes: let mut s = vec![], a new Entries.
Again ==
    /\ pc = "done" /\ Len(prior) < MaxRuns - 1
    /\ prior' = Append(prior, [result |-> result, recs |-> recs])
    /\ pos' = 0 /\ pc' = "sig" /\ sigs' = <<>> /\ recs' = <<>> /\ s' = <<>>
    /\ result' = NoResult
    /\ UNCHANGED <<api, verbose, src, bytes, calls, cli>>

NextTwice ==
    \/ LibReadSig \/ LibInvalidSig \/ LibEndOfStream
    \/ LibLocalFile \/ LibCentral \/ LibEocd \/ LibFinish
    \/ ZipReadEntry \/ ZipEndOfStream \/ ZipInvalidSig \/ ZipReadError
    \/ ZipProcess \/ ZipOutput
    \/ Again

SpecTwice == Init /\ [][NextTwice]_vars

\* The hand-written loop has returned and its outcome is noted; the same
\* bytes are then given to the declarative decoder, with the same verbose flag.
ThenZip ==
    /\ api = "lib" /\ pc = "done" /\ prior = <<>>
    /\ prior' = <<[result |-> result, recs |-> recs]>>
    /\ api' = "zip"
    /\ pos' = 0 /\ pc' = "sig" /\ sigs' = <<>> /\ recs' = <<>> /\ s' = <<>>
    /\ result' = NoResult
    /\ UNCHANGED <<verbose, src, bytes, calls, cli>>

InitBoth == Init /\ api = "lib"

NextBoth ==
    \/ LibReadSig \/ LibInvalidSig \/ LibEndOfStream
    \/ LibLocalFile \/ LibCentral \/ LibEocd \/ LibFinish
    \/ ZipReadEntry \/ ZipEndOfStream \/ ZipInvalidSig \/ ZipReadError
    \/ ZipProcess \/ ZipOutput
    \/ ThenZip

SpecBoth == InitBoth /\ [][NextBoth]_vars

(* ------------------------ process_file and main ----------------------- *)

\* The paths of a small file system, as the bytes of their names.
P_GOOD == <<103>>
P_TEXT == <<117>>
P_BADSIG == <<98>>
P_CUT == <<116>>
P_EMPTY == <<101>>
P_DIR == <<46>>
P_NONE == <<110>>
P_LOCKED == <<108>>

Paths == {P_GOOD, P_TEXT, P_BADSIG, P_CUT, P_EMPTY, P_DIR, P_NONE, P_LOCKED}

\* Path::exists, Path::is_file, and whether File::open succeeds
Exists(path) == path # P_NONE
IsFile(path) == path \notin {P_NONE, P_DIR}
CanOpen(path) == path # P_LOCKED

\* The bytes of the regular files.
Content(path) ==
    IF path = P_GOOD
    THEN EncodeAll(<< LocalFile(0, 4, <<97>>, <<>>, <<1, 2>>, <<>>),
                      CentralDirectoryFileHeader(0, 18611, 20761, 6, 0, <<100, 47>>, <<>>, <<>>),
                      EndOfCentralDirectoryRecord(2, <<>>) >>)
    ELSE IF path = P_TEXT
    THEN EncodeAll(<< LocalFile(65527, 0, <<255>>, <<>>, <<>>, <<>>),
                      CentralDirectoryFileHeader(0, 0, 0, 1, 4, <<47, 195, 169>>, <<>>, <<9>>) >>)
    ELSE IF path = P_BADSIG THEN <<0, 0, 0, 1>>
    ELSE IF path = P_CUT
    THEN SubSeq(Encode(EndOfCentralDirectoryRecord(2, <<>>)), 1, 19)
    ELSE <<>>

\* the is_file test made before the exists test
PathCheck_fileFirst(path) ==
    IF ~IsFile(path) THEN "notfile" ELSE IF ~Exists(path) THEN "missing" ELSE "ok"

\* if !path.exists() { .. } else if !path.is_file() { .. }
PathCheck(path) ==
    IF ~Exists(path) THEN "missing" ELSE IF ~IsFile(path) THEN "notfile" ELSE "ok"

\* lib.rs formats the path with {:?} (double quotes), zip.rs between backquotes
Quoted(path) == IF api = "lib" THEN <<34>> \o path \o <<34>> ELSE <<96>> \o path \o <<96>>

\* The Err(String) process_file returns without opening the file, if any.
PathError(path) ==
    IF PathCheck(path) = "missing"
    THEN <<Err(IF api = "lib" THEN E_NOENT ELSE E_NOEXIST, Quoted(path))>>
    ELSE IF PathCheck(path) = "notfile" THEN <<Err(E_NOTFILE, Quoted(path))>>
    ELSE IF ~CanOpen(path) THEN <<Err(E_DENIED, Quoted(path))>>
    ELSE <<>>

\* A call of process_file, of a conversion or of a read function, and what it
\* returned.
Call(fn, arg, at, ok, val) == [fn |-> fn, arg |-> arg, at |-> at, ok |-> ok, val |-> val]

InitCli ==
    /\ api \in {"lib", "zip"}
    /\ verbose \in BOOLEAN
    /\ src = <<>>
    /\ bytes = <<>>
    /\ pos = 0
    /\ pc = "main"
    /\ sigs = <<>>
    /\ recs = <<>>
    /\ s = <<>>
    /\ result = NoResult
    /\ calls = <<>>
    /\ cli \in {[files |-> fs, i |-> 1, out |-> <<>>, exit |-> -1] :
                   fs \in SeqsUpTo(Paths, MaxFiles)}
    /\ prior = <<>>

\* main: args.files.len() < 1
MainNoFiles ==
    /\ pc = "main" /\ cli.files = <<>>
    /\ result' = Err(E_NOFILES, <<>>)
    /\ cli' = [cli EXCEPT !.exit = 1]
    /\ pc' = "exit"
    /\ UNCHANGED <<api, verbose, src, bytes, pos, sigs, recs, s, calls, prior>>

\* process_file called for the next argument: the path is rejected
ProcessFileRejects ==
    /\ pc = "main" /\ cli.i <= Len(cli.files)
    /\ PathError(cli.files[cli.i]) # <<>>
    /\ result' = PathError(cli.files[cli.i])[1]
    /\ calls' = Append(calls, Call("process_file", cli.files[cli.i], cli.i, FALSE, <<>>))
    /\ pc' = "done"
    /\ UNCHANGED <<api, verbose, src, bytes, pos, sigs, recs, s, cli, prior>>

\* process_file called for the next argument: the file is opened and a
\* BufReader over it handed to process
ProcessFileOpens ==
    /\ pc = "main" /\ cli.i <= Len(cli.files)
    /\ PathError(cli.files[cli.i]) = <<>>
    /\ bytes' = Content(cli.files[cli.i])
    /\ calls' = Append(calls, Call("process_file", cli.files[cli.i], cli.i, TRUE, <<>>))
    /\ pc' = "sig"
    /\ UNCHANGED <<api, verbose, src, pos, sigs, recs, s, result, cli, prior>>

\* the failing file skipped and the loop continued
MainFail_skip ==
    /\ pc = "done" /\ result.kind = "err"
    /\ cli' = [cli EXCEPT !.i = @ + 1]
    /\ pc' = "main"
    /\ bytes' = <<>> /\ pos' = 0 /\ sigs' = <<>> /\ recs' = <<>> /\ s' = <<>>
    /\ result' = NoResult
    /\ UNCHANGED <<api, verbose, src, calls, prior>>

\* Ok(o) => println!("{o}"): the text goes to stdout and the loop goes on;
\* the reader and the text of the call are dropped
MainPrint ==
    /\ pc = "done" /\ result.kind = "ok"
    /\ cli' = [cli EXCEPT !.out = Append(@, result.text), !.i = @ + 1]
    /\ pc' = "main"
    /\ bytes' = <<>> /\ pos' = 0 /\ sigs' = <<>> /\ recs' = <<>> /\ s' = <<>>
    /\ result' = NoResult
    /\ UNCHANGED <<api, verbose, src, calls, prior>>

\* Err(e) => return Err(e): main ends, the message goes to stderr, exit status 1
MainFail ==
    /\ pc = "done" /\ result.kind = "err"
    /\ cli' = [cli EXCEPT !.exit = 1]
    /\ pc' = "exit"
    /\ UNCHANGED <<api, verbose, src, bytes, pos, sigs, recs, s, result, calls, prior>>

\* a panic inside process_file unwinds main: exit status 101
MainPanic ==
    /\ pc = "done" /\ result.kind = "panic"
    /\ cli' = [cli EXCEPT !.exit = 101]
    /\ pc' = "exit"
    /\ UNCHANGED <<api, verbose, src, bytes, pos, sigs, recs, s, result, calls, prior>>

\* the loop is over: Ok(()), exit status 0
MainReturn ==
    /\ pc = "main" /\ cli.files # <<>> /\ cli.i > Len(cli.files)
    /\ cli' = [cli EXCEPT !.exit = 0]
    /\ pc' = "exit"
    /\ UNCHANGED <<api, verbose, src, bytes, pos, sigs, recs, s, result, calls, prior>>

NextCli ==
    \/ LibReadSig \/ LibInvalidSig \/ LibEndOfStream
    \/ LibLocalFile \/ LibCentral \/ LibEocd \/ LibFinish
    \/ ZipReadEntry \/ ZipEndOfStream \/ ZipInvalidSig \/ ZipReadError
    \/ ZipProcess \/ ZipOutput
    \/ MainNoFiles \/ ProcessFileRejects \/ ProcessFileOpens
    \/ MainPrint \/ MainFail \/ MainPanic \/ MainReturn

SpecCli == InitCli /\ [][NextCli]_vars

(* ------------------ the Field Codec called on its own ----------------- *)

\* No decoder runs: only the codec functions are called.
InitDos ==
    /\ api \in {"lib", "zip"}
    /\ verbose = FALSE
    /\ src = <<>>
    /\ bytes = <<>>
    /\ pos = 0
    /\ pc = "dos"
    /\ sigs = <<>>
    /\ recs = <<>>
    /\ s = <<>>
    /\ result = NoResult
    /\ calls = <<>>
    /\ cli = NoCli
    /\ prior = <<>>

\* lib.rs: mod_time(a: &[u8]) on a two-byte slice, the u16 being summed from
\* it; functions.rs: mod_time(n: u16)
ModTime ==
    /\ pc = "dos"
    /\ \E n \in 0..U16_MAX :
          calls' = <<Call("mod_time", IF api = "lib" THEN LE16(n) ELSE n, 0, TRUE,
                          IF api = "lib" THEN mod_time(u16le(LE16(n))) ELSE mod_time(n))>>
    /\ pc' = "done"
    /\ UNCHANGED <<api, verbose, src, bytes, pos, sigs, recs, s, result, cli, prior>>

\* lib.rs: mod_date(a: &[u8]); functions.rs: mod_date(n: u16)
ModDate ==
    /\ pc = "dos"
    /\ \E n \in 0..U16_MAX :
          calls' = <<Call("mod_date", IF api = "lib" THEN LE16(n) ELSE n, 0, TRUE,
                          IF api = "lib" THEN mod_date(u16le(LE16(n))) ELSE mod_date(n))>>
    /\ pc' = "done"
    /\ UNCHANGED <<api, verbose, src, bytes, pos, sigs, recs, s, result, cli, prior>>

\* The values the other field holds while one field ranges over every u16.
StampEdges == {0, 65535}

\* The date and time of a summary line, from the two raw fields nd and nt,
\* as summary formats them: {:04}-{:02}-{:02}T{:02}:{:02}:{:02}
Stamp(nd, nt) ==
    calls' = <<Call("timestamp", <<nd, nt>>, 0, TRUE,
                    IF api = "lib"
                    THEN Timestamp(mod_date(u16le(LE16(nd)))[1], mod_time(u16le(LE16(nt)))[1])
                    ELSE Timestamp(mod_date(nd)[1], mod_time(nt)[1]))>>

\* CentralDirectoryFileHeader::summary, the timestamp column
SummaryStamp ==
    /\ pc = "dos"
    /\ \E n \in 0..U16_MAX, k \in StampEdges : Stamp(n, k) \/ Stamp(k, n)
    /\ pc' = "done"
    /\ UNCHANGED <<api, verbose, src, bytes, pos, sigs, recs, s, result, cli, prior>>

NextDos == ModTime \/ ModDate \/ SummaryStamp

SpecDos == InitDos /\ [][NextDos]_vars

\* The byte values of the streams the read functions are called on.
CodecBytes == {18, 127}

\* A reader over a short stream, as in read_test.
InitCodec ==
    /\ api = "lib"
    /\ verbose = FALSE
    /\ src = <<>>
    /\ bytes \in SeqsUpTo(CodecBytes, MaxStream)
    /\ pos = 0
    /\ pc = "codec"
    /\ sigs = <<>>
    /\ recs = <<>>
    /\ s = <<>>
    /\ result = NoResult
    /\ calls = <<>>
    /\ cli = NoCli
    /\ prior = <<>>

\* Ok(u16le(&read(Field::U16LE, r)?))
read_u16le(p) ==
    LET r == read("U16LE", p) IN
    [ok |-> r.ok, val |-> IF r.ok THEN u16le(r.buf) ELSE 0, pos |-> r.pos]

\* Ok(u32le(&read(Field::U32LE, r)?))
read_u32le(p) ==
    LET r == read("U32LE", p) IN
    [ok |-> r.ok, val |-> IF r.ok THEN u32le(r.buf) ELSE 0, pos |-> r.pos]

\* Ok(u32be(&read(Field::U32BE, r)?))
read_u32be(p) ==
    LET r == read("U32BE", p) IN
    [ok |-> r.ok, val |-> IF r.ok THEN u32be(r.buf) ELSE 0, pos |-> r.pos]

\* One read call on the reader: the call is logged with the offset it
\* started at, and the reader is left where the call left it.
ReadCall(fn, r) ==
    /\ pc = "codec"
    /\ Len(calls) < MaxCalls
    /\ calls' = Append(calls, Call(fn, <<>>, pos, r.ok, r.val))
    /\ pos' = r.pos
    /\ UNCHANGED <<api, verbose, src, bytes, pc, sigs, recs, s, result, cli, prior>>

ReadU16le == \E r \in {read_u16le(pos)} : ReadCall("read_u16le", r)

ReadU32le == \E r \in {read_u32le(pos)} : ReadCall("read_u32le", r)

ReadU32be == \E r \in {read_u32be(pos)} : ReadCall("read_u32be", r)

NextCodec == ReadU16le \/ ReadU32le \/ ReadU32be

SpecCodec == InitCodec /\ [][NextCodec]_vars

(* ------------------------------ claims -------------------------------- *)

\* The assembled stream ends inside a record whose signature is complete:
\* k whole records, then a record cut short after its 4 signature bytes.
TruncatedRecord ==
    \E k \in 0..(Len(src) - 1) :
        /\ EndOf(src, k) + 4 <= Len(bytes)
        /\ Len(bytes) < EndOf(src, k + 1)

\* The last signature read hit the end of the stream (0 to 3 bytes were left).
EofSeen == sigs # <<>> /\ Len(sigs[Len(sigs)].raw) < 4

\* Offset at which the signature after the i-th decoded record is read.
NextAt(i) == IF i < Len(sigs) THEN sigs[i + 1].at ELSE pos

\* C1: whenever the 4 bytes read at a record boundary are none of the three
\* magics, the call ends there with the error "Invalid signature" carrying the
\* 8 lowercase hex digits of those bytes in stream order, and returns no text,
\* whatever the number of records decoded before and whatever the verbose flag.
C1_InvalidSignatureAborts ==
    \A i \in 1..Len(sigs) :
        (Len(sigs[i].raw) = 4 /\ sigs[i].raw \notin Magics)
        => /\ i = Len(sigs)
           /\ pc = "done"
           /\ result = [kind |-> "err", err |-> E_SIG,
                        msg |-> HexEncode(sigs[i].raw), text |-> <<>>]

\* C1 witness: an unknown signature met after a record was decoded.
C1_Witness ==
    /\ pc = "done" /\ result.err = E_SIG /\ Len(recs) >= 1
    /\ sigs[Len(sigs)].raw = <<80, 75, 7, 8>>
    /\ result.msg = <<53, 48, 52, 98, 48, 55, 48, 56>>

\* C2: a stream of k >= 0 complete records followed by a record cut short
\* after its matched signature never yields a successful result.
C2_TruncatedRecordFails ==
    (pc = "done" /\ TruncatedRecord) => result.kind # "ok"

\* C3: when no record was decoded before the end of the stream (fewer than 4
\* bytes in all), the call fails with "Unexpected end of file", for both
\* values of the verbose flag.
C3_EmptyStreamFails ==
    (pc = "done" /\ Len(bytes) < 4)
    => result = [kind |-> "err", err |-> E_EOF, msg |-> <<>>, text |-> <<>>]

\* The pieces of a text made by the format string k.
Pieces(text, k) == SelectSeq(text, LAMBDA x : x.k = k)

\* The little-endian 16-bit and 32-bit values at offset off of the stream.
HalfAt(off) == bytes[off + 1] + 256 * bytes[off + 2]
WordAt(off) == bytes[off + 1] + 256 * bytes[off + 2] + 65536 * bytes[off + 3]
               + 16777216 * bytes[off + 4]

\* C4: when fewer than 4 bytes remain at a record boundary and at least one
\* record was decoded, the loop stops without an error: decoding succeeds with
\* exactly the records decoded so far (one per earlier signature read), and the
\* leftover bytes add nothing to the result.
C4_EndOfStreamIsSuccess ==
    (EofSeen /\ recs # <<>>)
    => /\ pc \in {"join", "process", "output", "done"}
       /\ Len(recs) = Len(sigs) - 1
       /\ result.kind # "err"
       /\ (result.kind = "panic" => api = "zip")
       /\ (api = "lib" /\ pc = "done") => result.kind = "ok"
       /\ (result.kind = "ok" /\ verbose)
          => /\ Len(Pieces(result.text, "sig")) = Len(recs)
             /\ \A i \in 1..Len(recs) :
                   Pieces(result.text, "sig")[i].a = Hex(recs[i].sig, 8)
       /\ (result.kind = "ok" /\ ~verbose)
          => Len(result.text) = Cardinality({i \in 1..Len(recs) : recs[i].sig = SIG_CENTRAL})

\* C4 witness: a successful decode that left 3 bytes unread after a record.
C4_Witness ==
    /\ pc = "done" /\ result.kind = "ok" /\ Len(recs) >= 1
    /\ sigs[Len(sigs)].raw = <<80, 75, 3>>

\* C5: a local file header has a data descriptor exactly when bit 3 of its
\* flags is set; when set it is the three little-endian 32-bit values that
\* follow the compressed_size bytes of file_data, and the next signature is
\* read 12 bytes later; when unset nothing is consumed for it, it is rendered
\* as None, and the next signature is read right after file_data.
C5_DataDescriptorIffBit3 ==
    /\ \A i \in 1..Len(recs) :
          recs[i].sig = SIG_LOCAL
          => LET st == sigs[i].at
                 bit3 == (bytes[st + 7] \div 8) % 2 = 1
                 cs == WordAt(st + 18)
                 dataEnd == st + 30 + HalfAt(st + 26) + HalfAt(st + 28) + cs
             IN  /\ bit3 <=> (recs[i].data_descriptor # <<>>)
                 /\ recs[i].file_data = SubSeq(bytes, dataEnd - cs + 1, dataEnd)
                 /\ bit3 => /\ recs[i].data_descriptor =
                                  <<[crc32 |-> WordAt(dataEnd),
                                     compressed_size |-> WordAt(dataEnd + 4),
                                     uncompressed_size |-> WordAt(dataEnd + 8)]>>
                            /\ NextAt(i) = dataEnd + 12
                 /\ ~bit3 => NextAt(i) = dataEnd
    /\ (verbose /\ (api = "lib" \/ result.kind = "ok"))
       => Len(SelectSeq(s, LAMBDA x : x.k = "data_descriptor" /\ x.b = NONE_TXT))
          = Cardinality({i \in 1..Len(recs) :
                            recs[i].sig = SIG_LOCAL /\ ~BitSet(recs[i].flags, 3)})

\* C5 witness: a header with bit 3 set whose descriptor was read after its
\* file data, followed by a header with every flag bit but bit 3 set.
C5_Witness ==
    /\ Len(recs) = 2
    /\ recs[1].sig = SIG_LOCAL /\ recs[1].flags = 8
    /\ recs[1].file_data = <<80, 75>>
    /\ recs[1].data_descriptor =
          <<[crc32 |-> 1, compressed_size |-> 2, uncompressed_size |-> 70000]>>
    /\ recs[2].sig = SIG_LOCAL /\ recs[2].flags = 65527
    /\ recs[2].data_descriptor = <<>>

\* C6: a local file header's file_name, extra_field and file_data are the
\* file_name_length, extra_field_length and compressed_size bytes that follow
\* its 26 bytes of fixed fields, in this order, and the next signature is read
\* 4 + 26 + the three lengths (+ 12 if flag bit 3 is set) bytes after its start.
C6_LocalFileLayout ==
    \A i \in 1..Len(recs) :
        recs[i].sig = SIG_LOCAL
        => LET st == sigs[i].at
               n == HalfAt(st + 26)
               e == HalfAt(st + 28)
               cs == WordAt(st + 18)
               dd == IF (bytes[st + 7] \div 8) % 2 = 1 THEN 12 ELSE 0
           IN  /\ recs[i].file_name = SubSeq(bytes, st + 31, st + 30 + n)
               /\ recs[i].extra_field = SubSeq(bytes, st + 31 + n, st + 30 + n + e)
               /\ recs[i].file_data = SubSeq(bytes, st + 31 + n + e, st + 30 + n + e + cs)
               /\ NextAt(i) = st + 4 + 26 + n + e + cs + dd

\* C6 witness: a header with a name and file data, then a further record.
C6_Witness ==
    /\ Len(recs) = 2
    /\ recs[1].sig = SIG_LOCAL /\ recs[1].file_name = <<97>>
    /\ recs[1].file_data = <<1, 2>> /\ recs[1].uncompressed_size = 4
    /\ sigs[2].at = 33

\* C7: a central directory file header's file_name, extra_field and
\* file_comment are the file_name_length, extra_field_length and
\* file_comment_length bytes that follow its 42 bytes of fixed fields, in this
\* order, and the next signature is read 4 + 42 + the three lengths bytes
\* after its start.
C7_CentralLayout ==
    \A i \in 1..Len(recs) :
        recs[i].sig = SIG_CENTRAL
        => LET st == sigs[i].at
               n == HalfAt(st + 28)
               e == HalfAt(st + 30)
               c == HalfAt(st + 32)
           IN  /\ recs[i].file_name = SubSeq(bytes, st + 47, st + 46 + n)
               /\ recs[i].extra_field = SubSeq(bytes, st + 47 + n, st + 46 + n + e)
               /\ recs[i].file_comment = SubSeq(bytes, st + 47 + n + e, st + 46 + n + e + c)
               /\ NextAt(i) = st + 4 + 42 + n + e + c

\* C7 witness: a header with an extra field and a comment of different
\* lengths, then a further record.
C7_Witness ==
    /\ Len(recs) = 2
    /\ recs[1].sig = SIG_CENTRAL /\ recs[1].file_name = <<>>
    /\ recs[1].extra_field = <<9, 9>> /\ recs[1].file_comment = <<65>>
    /\ sigs[2].at = 49

\* C8: an end of central directory record takes 22 + comment_length bytes:
\* the comment_length bytes after its fixed fields are its comment, and the
\* next signature is read after them.
C8_EocdConsumesComment ==
    \A i \in 1..Len(recs) :
        recs[i].sig = SIG_EOCD
        => NextAt(i) = sigs[i].at + 22 + HalfAt(sigs[i].at + 20)

\* The assembled records that lie wholly inside the stream.
WholeRecords == SelectSeq([i \in 1..Len(src) |-> [n |-> i, e |-> src[i]]],
                          LAMBDA x : EndOf(src, x.n) <= Len(bytes))

\* The central directory file headers among them, in stream order.
StreamCentrals == SelectSeq(WholeRecords, LAMBDA x : x.e.sig = SIG_CENTRAL)

IsPrefix(a, b) == Len(a) <= Len(b) /\ SubSeq(b, 1, Len(a)) = a

IsSuffix(a, b) == Len(a) <= Len(b) /\ SubSeq(b, Len(b) - Len(a) + 1, Len(b)) = a

\* C9: in summary mode a successful call returns exactly one line per central
\* directory file header of the stream, nothing for the other records, and the
\* lines are in the order of the headers in the stream.
C9_SummaryOneLinePerCentral ==
    (pc = "done" /\ result.kind = "ok" /\ ~verbose)
    => /\ Len(result.text) = Len(StreamCentrals)
       /\ \A j \in 1..Len(result.text) :
             /\ result.text[j].k = "summary"
             /\ IsPrefix(StreamCentrals[j].e.file_name \o <<TAB>>, result.text[j].b)
             /\ IsSuffix(<<TAB>> \o StreamCentrals[j].e.file_comment \o <<NL>>,
                         result.text[j].b)

\* C9 witness: two central directory headers gave two lines in stream order.
C9_Witness ==
    /\ pc = "done" /\ result.kind = "ok" /\ ~verbose
    /\ Len(result.text) = 2
    /\ IsPrefix(<<TAB>>, result.text[1].b)
    /\ IsPrefix(<<100, 47, TAB>>, result.text[2].b)

\* The summary line of a central directory file header as the specification
\* states it: file_name, directory flag, uncompressed_size, the timestamp
\* YYYY-MM-DDThh:mm:ss from the DOS bit fields, file_comment.
ExpectedLine(e) ==
    LET hour == e.mod_time \div 2048
        minute == (e.mod_time \div 32) % 64
        second == 2 * (e.mod_time % 32)
        year == 1980 + (e.mod_date \div 512)
        month == (e.mod_date \div 32) % 16
        day == e.mod_date % 32
        dir == IF e.file_name # <<>> /\ e.file_name[Len(e.file_name)] = 47
               THEN <<116, 114, 117, 101>> ELSE <<102, 97, 108, 115, 101>>
    IN  e.file_name \o <<9>> \o dir \o <<9>> \o Dec(e.uncompressed_size) \o <<9>>
        \o DecPad(year, 4) \o <<45>> \o DecPad(month, 2) \o <<45>> \o DecPad(day, 2)
        \o <<84>> \o DecPad(hour, 2) \o <<58>> \o DecPad(minute, 2) \o <<58>>
        \o DecPad(second, 2) \o <<9>> \o e.file_comment \o <<10>>

\* C10: each summary line is file_name, directory flag, uncompressed_size,
\* timestamp and file_comment joined by tabs and ended by a newline; the flag
\* is true exactly when the last byte of file_name is a slash, the size is the
\* record's own uncompressed_size in decimal, and the timestamp comes from the
\* mod_date and mod_time of the same record.
C10_SummaryLineFields ==
    (~verbose /\ (api = "lib" \/ result.kind = "ok"))
    => LET cds == SelectSeq(recs, LAMBDA e : e.sig = SIG_CENTRAL) IN
       /\ Len(s) = Len(cds)
       /\ \A j \in 1..Len(s) : s[j].b = ExpectedLine(cds[j])

\* C10 witness: the lines "d/<TAB>true<TAB>0<TAB>2020-08-25T09:05:38<TAB>" and
\* "/e'<TAB>false<TAB>4<TAB>1980-00-00T00:00:00<TAB><TAB>" were returned.
C10_Witness ==
    /\ pc = "done" /\ result.kind = "ok" /\ Len(result.text) = 2
    /\ result.text[1].b = <<100, 47, 9, 116, 114, 117, 101, 9, 48, 9,
                            50, 48, 50, 48, 45, 48, 56, 45, 50, 53, 84,
                            48, 57, 58, 48, 53, 58, 51, 56, 9, 10>>
    /\ result.text[2].b = <<47, 195, 169, 9, 102, 97, 108, 115, 101, 9, 52, 9,
                            49, 57, 56, 48, 45, 48, 48, 45, 48, 48, 84,
                            48, 48, 58, 48, 48, 58, 48, 48, 9, 9, 10>>

\* The lines of a verbose text: each separator and marker piece is split into
\* its lines "---" and "EOF"; every other piece is one line.
LineSep == Tok("---", <<>>, <<>>)
LineEof == Tok("EOF", <<>>, <<>>)
Lines(text) ==
    Concat([i \in 1..Len(text) |->
               IF text[i].k = "---" THEN <<LineSep>>
               ELSE IF text[i].k = "EOF ---" THEN <<LineEof, LineSep>>
               ELSE IF text[i].k = "--- EOF ---" THEN <<LineSep, LineEof, LineSep>>
               ELSE <<text[i]>>])

\* The positions of the lines of L that satisfy the test, in increasing order.
Where(L, Test(_)) == SelectSeq([i \in 1..Len(L) |-> i], LAMBDA i : Test(L[i]))

\* C11: in verbose mode a successful result is, for each decoded record in
\* stream order, one "---" line followed by that record's block (which starts
\* with the signature found at the record's offset and shows the record's own
\* fields), and after the last block the lines "---", "EOF", "---", the EOF
\* line occurring exactly once.
C11_VerboseBlocksThenEof ==
    (pc = "done" /\ result.kind = "ok" /\ verbose)
    => LET L == Lines(result.text)
           n == Len(recs)
           seps == Where(L, LAMBDA x : x = LineSep)
           BlockEnd(j) == seps[j + 1] - 1
       IN  /\ Len(L) >= 3
           /\ SubSeq(L, Len(L) - 2, Len(L)) = <<LineSep, LineEof, LineSep>>
           /\ Where(L, LAMBDA x : x = LineEof) = <<Len(L) - 1>>
           /\ Len(seps) = n + 2
           /\ n >= 1 => seps[1] = 1
           /\ \A j \in 1..n :
                 /\ seps[j] + 1 <= BlockEnd(j)
                 /\ L[seps[j] + 1].k = "sig"
                 /\ L[seps[j] + 1].a
                       = HexEncode(SubSeq(bytes, sigs[j].at + 1, sigs[j].at + 4))
                 /\ j < n => sigs[j].at < sigs[j + 1].at
                 /\ \A i \in (seps[j] + 1)..BlockEnd(j) :
                       /\ L[i].k = "file_name" => L[i].b = recs[j].file_name
                       /\ L[i].k = "total_entries"
                          => L[i].b = Dec(HalfAt(sigs[j].at + 10))

\* C11 witness: a central directory header then an end of central directory
\* record rendered as two blocks of 20 and 9 lines and the EOF marker.
C11_Witness ==
    /\ pc = "done" /\ result.kind = "ok" /\ verbose
    /\ Len(recs) = 2 /\ recs[1].sig = SIG_CENTRAL /\ recs[2].sig = SIG_EOCD
    /\ Len(Lines(result.text)) = 1 + 20 + 1 + 9 + 3

\* Bits lo..hi of n, as a number.
Bits(n, lo, hi) == (n % (2 ^ (hi + 1))) \div (2 ^ lo)

\* The 16-bit value a call of mod_time or mod_date was given.
RawOf(c) == IF api = "lib" THEN c.arg[1] + 256 * c.arg[2] ELSE c.arg

\* C12: for every 16-bit n, mod_time(n) is ((hour, minute, second), n) with
\* hour = bits 11-15, minute = bits 5-10, second = 2 x bits 0-4, whatever the
\* ranges; mod_time(0x48b3) = ((9, 5, 38), 0x48b3).
C12_ModTimeBitFields ==
    \A i \in 1..Len(calls) :
        calls[i].fn = "mod_time"
        => LET n == RawOf(calls[i]) IN
           /\ calls[i].val = << <<Bits(n, 11, 15), Bits(n, 5, 10), 2 * Bits(n, 0, 4)>>, n >>
           /\ n = 18611 => calls[i].val = << <<9, 5, 38>>, 18611 >>

\* C12 witness: mod_time applied to 0x48b3 returned ((9, 5, 38), 0x48b3).
C12_Witness ==
    /\ calls # <<>> /\ calls[1].fn = "mod_time"
    /\ RawOf(calls[1]) = 18611
    /\ calls[1].val = << <<9, 5, 38>>, 18611 >>

\* C13: for every 16-bit n, mod_date(n) is ((year, month, day), n) with
\* year = 1980 + bits 9-15, month = bits 5-8, day = bits 0-4, months and
\* days outside the calendar passed through; mod_date(0x5119) =
\* ((2020, 8, 25), 0x5119).
C13_ModDateBitFields ==
    \A i \in 1..Len(calls) :
        calls[i].fn = "mod_date"
        => LET n == RawOf(calls[i]) IN
           /\ calls[i].val = << <<1980 + Bits(n, 9, 15), Bits(n, 5, 8), Bits(n, 0, 4)>>, n >>
           /\ n = 20761 => calls[i].val = << <<2020, 8, 25>>, 20761 >>
           /\ n = 480 => calls[i].val = << <<1980, 15, 0>>, 480 >>

\* C13 witness: mod_date applied to 0x01e0 returned month 15 and day 0.
C13_Witness ==
    /\ calls # <<>> /\ calls[1].fn = "mod_date"
    /\ RawOf(calls[1]) = 480
    /\ calls[1].val = << <<1980, 15, 0>>, 480 >>

\* The number of bytes a read function is to decode.
WidthOf(fn) == IF fn = "read_u16le" THEN 2 ELSE 4

\* The unsigned value of the bytes of the stream from offset off, the first
\* byte being the least significant (little-endian) or the most (big-endian).
LittleEndianAt(off, w) ==
    IF w = 2 THEN bytes[off + 1] + 256 * bytes[off + 2]
    ELSE bytes[off + 1] + 256 * bytes[off + 2] + 65536 * bytes[off + 3]
         + 16777216 * bytes[off + 4]
BigEndianAt(off) ==
    16777216 * bytes[off + 1] + 65536 * bytes[off + 2] + 256 * bytes[off + 3]
    + bytes[off + 4]

\* C14: read_u16le, read_u32le and read_u32be fail exactly when fewer than 2,
\* 4 and 4 bytes are left; otherwise they return the little-endian
\* (read_u32be: big-endian) unsigned value of exactly the next 2, 4 and 4
\* bytes, and the following read starts right after them.
C14_FixedWidthReads ==
    \A i \in 1..Len(calls) :
        calls[i].fn \in {"read_u16le", "read_u32le", "read_u32be"}
        => LET c == calls[i]
               w == WidthOf(c.fn)
           IN  /\ c.ok <=> (Len(bytes) - c.at >= w)
               /\ c.ok => c.val = IF c.fn = "read_u32be" THEN BigEndianAt(c.at)
                                  ELSE LittleEndianAt(c.at, w)
               /\ i = 1 => c.at = 0
               /\ (i > 1 /\ calls[i - 1].ok) => c.at = calls[i - 1].at + WidthOf(calls[i - 1].fn)
               /\ (i = Len(calls) /\ c.ok) => pos = c.at + w

\* C14 witness: on a 7-byte stream a 16-bit read of bytes 0-1, then a 32-bit
\* little-endian read of bytes 2-5, then a 32-bit big-endian read that fails
\* with one byte left.
C14_Witness ==
    /\ Len(bytes) = 7 /\ Len(calls) = 3
    /\ calls[1] = Call("read_u16le", <<>>, 0, TRUE, 18 + 256 * 127)
    /\ calls[2].fn = "read_u32le" /\ calls[2].ok /\ calls[2].at = 2
    /\ SubSeq(bytes, 3, 6) = <<127, 18, 18, 127>>
    /\ calls[2].val = 127 + 256 * 18 + 65536 * 18 + 16777216 * 127
    /\ calls[3].fn = "read_u32be" /\ ~calls[3].ok /\ calls[3].at = 6

\* A record of the stream holds a text field that is not valid UTF-8.
BadText(e) ==
    IF e.sig = SIG_LOCAL THEN ~Utf8Valid(e.file_name)
    ELSE IF e.sig = SIG_CENTRAL THEN ~Utf8Valid(e.file_name) \/ ~Utf8Valid(e.file_comment)
    ELSE ~Utf8Valid(e.zip_file_comment)

\* C15: in verbose mode, when a record of the stream has a file_name,
\* file_comment or zip_file_comment that is not valid UTF-8, the call returns
\* an error result and no text.
C15_NonTextFieldIsError ==
    (pc = "done" /\ verbose /\ \E j \in 1..Len(WholeRecords) : BadText(WholeRecords[j].e))
    => (result.kind = "err" /\ result.text = <<>>)

\* The paths for which process_file fails whatever the flags, and the one for
\* which it never does.
AlwaysFailing == {P_BADSIG, P_CUT, P_DIR, P_NONE, P_LOCKED}
NeverFailing == {P_GOOD}

\* C16: main calls process_file once for each file argument, in argument
\* order, up to and including the first one that fails; the outputs of the
\* files before it are on stdout in that order, its error is the one reported,
\* no later file is processed and the exit status is not zero; when no file
\* fails every file's output is on stdout in argument order and the exit
\* status is zero.
C16_FilesInOrderUntilFailure ==
    (pc = "exit" /\ cli.files # <<>>)
    => LET k == Len(calls)
           n == Len(cli.files)
       IN  /\ k >= 1 /\ k <= n
           /\ \A j \in 1..k :
                 calls[j].fn = "process_file" /\ calls[j].arg = cli.files[j]
           /\ cli.exit \in {0, 1, 101}
           /\ cli.exit = 0
              => /\ k = n /\ Len(cli.out) = n
                 /\ \A j \in 1..n : cli.files[j] \notin AlwaysFailing
           /\ cli.exit # 0
              => /\ Len(cli.out) = k - 1
                 /\ result.kind \in {"err", "panic"}
                 /\ cli.files[k] \notin NeverFailing
                 /\ \A j \in 1..(k - 1) : cli.files[j] \notin AlwaysFailing
                 /\ cli.files[k] \in {P_DIR, P_NONE, P_LOCKED}
                    => IsSuffix(cli.files[k], SubSeq(result.msg, 1, Len(result.msg) - 1))
                 /\ cli.files[k] = P_BADSIG => result.err = E_SIG
           /\ \A j \in 1..Len(cli.out) :
                 /\ cli.files[j] = P_GOOD
                    => /\ cli.out[j] # <<>>
                       /\ ~verbose => IsPrefix(<<100, 47, TAB>>, cli.out[j][1].b)
                       /\ verbose => cli.out[j][2].k = "sig"
                 /\ cli.files[j] = P_TEXT
                    => ~verbose /\ IsPrefix(<<47, 195, 169, TAB>>, cli.out[j][1].b)
                 /\ cli.files[j] = P_EMPTY => cli.out[j] = <<>>

\* C16 witness: of three files the second does not exist: the first file's
\* output was printed, the error names the second, the third was not processed.
C16_Witness ==
    /\ pc = "exit" /\ cli.exit = 1
    /\ cli.files = <<P_GOOD, P_NONE, P_TEXT>>
    /\ Len(cli.out) = 1 /\ Len(calls) = 2
    /\ result.kind = "err" /\ result.msg = <<34>> \o P_NONE \o <<34>>

\* C17: when the path given to process_file does not exist the call fails
\* with No such file or directory (os error 2): "<path>", when it exists but
\* is not a regular file with Path is not a file: "<path>"; a missing path is
\* reported as missing, not as not being a file; in both cases no byte is
\* handed to the decoder.
C17_PathValidatedFirst ==
    (calls # <<>> /\ calls[Len(calls)].fn = "process_file" /\ pc # "main")
    => LET path == calls[Len(calls)].arg IN
       /\ path = P_NONE
          => /\ result = [kind |-> "err", err |-> E_NOENT,
                          msg |-> <<34>> \o path \o <<34>>, text |-> <<>>]
             /\ bytes = <<>> /\ pos = 0 /\ sigs = <<>> /\ recs = <<>> /\ s = <<>>
       /\ path = P_DIR
          => /\ result = [kind |-> "err", err |-> E_NOTFILE,
                          msg |-> <<34>> \o path \o <<34>>, text |-> <<>>]
             /\ bytes = <<>> /\ pos = 0 /\ sigs = <<>> /\ recs = <<>> /\ s = <<>>

SigsAdvance == \A i \in 1..(Len(sigs) - 1) : sigs[i + 1].at >= sigs[i].at + 4

C20_SummaryNeverAborts ==
    (pc = "done" /\ ~verbose /\ result.kind # "err")
    => /\ result.kind = "ok"
       /\ Len(result.text) = Len(SelectSeq(recs, LAMBDA e : e.sig = SIG_CENTRAL))

U8_MAX == 255

IsDigit(b) == b >= 48 /\ b <= 57

\* The text has the shape YYYY-MM-DDThh:mm:ss.
StampShape(x) ==
    /\ Len(x) = 19
    /\ x[5] = 45 /\ x[8] = 45 /\ x[11] = 84 /\ x[14] = 58 /\ x[17] = 58
    /\ \A i \in (1..19) \ {5, 8, 11, 14, 17} : IsDigit(x[i])

\* C21: for every 16-bit input the values mod_time and mod_date compute
\* stay, before any narrowing, inside their result types (u8, and u16 for the
\* year), so nothing wraps: hour in 0..31, minute in 0..63, second even and
\* in 0..62, year in 1980..2107, month in 0..15, day in 0..31; and the
\* summary timestamp is always 19 characters, YYYY-MM-DDThh:mm:ss.
C21_DosFieldsInRange ==
    \A i \in 1..Len(calls) :
        /\ calls[i].fn = "mod_time"
           => LET n == RawOf(calls[i])
                  v == calls[i].val[1]
              IN /\ 2 * Bits(n, 0, 4) <= U8_MAX /\ Bits(n, 5, 10) <= U8_MAX
                 /\ Bits(n, 11, 15) <= U8_MAX
                 /\ v = <<Bits(n, 11, 15), Bits(n, 5, 10), 2 * Bits(n, 0, 4)>>
                 /\ v[1] \in 0..31 /\ v[2] \in 0..63
                 /\ v[3] \in 0..62 /\ v[3] % 2 = 0
        /\ calls[i].fn = "mod_date"
           => LET n == RawOf(calls[i])
                  v == calls[i].val[1]
              IN /\ 1980 + Bits(n, 9, 15) <= U16_MAX
                 /\ v = <<1980 + Bits(n, 9, 15), Bits(n, 5, 8), Bits(n, 0, 4)>>
                 /\ v[1] \in 1980..2107 /\ v[2] \in 0..15 /\ v[3] \in 0..31
        /\ calls[i].fn = "timestamp" => StampShape(calls[i].val)

\* C21 witness: the largest input, 0xffff for both fields, rendered as
\* 2107-15-31T31:63:62.
C21_Witness ==
    /\ calls # <<>> /\ calls[1].fn = "timestamp"
    /\ calls[1].arg = <<65535, 65535>>
    /\ calls[1].val = <<50, 49, 48, 55, 45, 49, 53, 45, 51, 49, 84,
                        51, 49, 58, 54, 51, 58, 54, 50>>

\* Both decoders are done with the same bytes.
BothDone == pc = "done" /\ api = "zip" /\ prior # <<>>

\* The fields two records both have hold the same values.
SameFields(a, b) == \A f \in (DOMAIN a) \cap (DOMAIN b) : a[f] = b[f]

\* The same record kinds in the same order, with the same field values.
SameRecords(x, y) ==
    /\ Len(x) = Len(y)
    /\ \A i \in 1..Len(x) : x[i].sig = y[i].sig /\ SameFields(x[i], y[i])

\* Both calls return Ok, or neither does.
C22_SameVerdict == BothDone => ((result.kind = "ok") <=> (prior[1].result.kind = "ok"))

\* When both return Ok they decoded the same records.
C22_SameRecords ==
    (BothDone /\ result.kind = "ok" /\ prior[1].result.kind = "ok")
    => SameRecords(prior[1].recs, recs)

\* When both return Ok in summary mode the text is the same.
C22_SameSummary ==
    (BothDone /\ ~verbose /\ result.kind = "ok" /\ prior[1].result.kind = "ok")
    => result.text = prior[1].result.text

\* C22: on every byte stream and for each verbose flag, process of lib.rs
\* and Zip::process followed by Zip::output both succeed or both fail,
\* decode the same record kinds with the same field values, and in summary
\* mode return the same text.
C22_DecodersAgree == C22_SameVerdict /\ C22_SameRecords /\ C22_SameSummary

====
